---- MODULE Spec2Model ----
(***************************************************************************)
(* State-machine model of FSM<T> (src/fsm.h): the transition table, the    *)
(* in/out edge counters, the current state, and the three trigger          *)
(* operations built on try_trigger.                                        *)
(***************************************************************************)
EXTENDS Naturals, Sequences, FiniteSets

\* ------------------------------------------------------------------ bounds
\* Largest number of accepted register_transition calls explored.
MaxEdges == 2
\* Largest tv_sec / tv_nsec of a timespec explored.
MaxSec == 1
MaxNsec == 1
\* The attempt counter of a polling call saturates here.
MaxPolls == 2
\* Largest number of edges leaving the source of a fan.
FanOut == 3

\* Values of the state type T, and the predicates a caller can register.
\* A predicate is a closure bool(): what it returns is read from pred_env.
States == {"A", "B", "C"}
Preds == {"p", "q"}

\* Marks an out-parameter the call has not assigned, and an unused argument.
NoState == "none"

Times == [tv_sec : 0..MaxSec, tv_nsec : 0..MaxNsec]
ZeroTime == [tv_sec |-> 0, tv_nsec |-> 0]

VARIABLES
    trans_tbl,   \* _trans_tbl: source -> ordered vector of (target, predicate)
    edges_tbl,   \* _edges_tbl: state -> (in edges, out edges)
    state,       \* _state
    pred_env,    \* what each registered predicate returns when called now
    pc,          \* "idle", or the polling call in progress
    abs_time,    \* the deadline of the timed_trigger call in progress
    last         \* the most recent call: arguments, result, out-parameters

vars == <<trans_tbl, edges_tbl, state, pred_env, pc, abs_time, last>>

\* ------------------------------------------------------------- containers
\* std::unordered_map emplace / operator[] of a missing key.
Put(f, k, v) == [x \in DOMAIN f \cup {k} |-> IF x = k THEN v ELSE f[x]]

EmptyMap == [x \in {} |-> 0]

\* std::pair<T, trans_func_t>
state_info_t(next_state, pred) == [first |-> next_state, second |-> pred]

\* Number of edges held by the transition table.
RECURSIVE SumLen(_, _)
SumLen(tbl, keys) ==
    IF keys = {} THEN 0
    ELSE LET k == CHOOSE x \in keys : TRUE
         IN Len(tbl[k]) + SumLen(tbl, keys \ {k})

EdgeCount(tbl) == SumLen(tbl, DOMAIN tbl)

\* ---------------------------------------------------- register_transition
\* register_transition without the search for an existing (source, target).
register_transition_nodup(tbl, edg, pre_state, next_state, pred) ==
    IF pre_state = next_state
    THEN [ret |-> FALSE, trans_tbl |-> tbl, edges_tbl |-> edg]
    ELSE LET tbl1 == IF pre_state \in DOMAIN tbl THEN tbl
                     ELSE Put(tbl, pre_state, <<>>)
             tbl2 == [tbl1 EXCEPT ![pre_state] =
                          Append(@, state_info_t(next_state, pred))]
             e1 == IF pre_state \in DOMAIN edg THEN edg
                   ELSE Put(edg, pre_state, [first |-> 0, second |-> 0])
             e2 == IF next_state \in DOMAIN e1 THEN e1
                   ELSE Put(e1, next_state, [first |-> 0, second |-> 0])
             e3 == [e2 EXCEPT ![pre_state].second = @ + 1]
             e4 == [e3 EXCEPT ![next_state].first = @ + 1]
         IN [ret |-> TRUE, trans_tbl |-> tbl2, edges_tbl |-> e4]

\* register_transition taking _trans_tbl[pre_state] before it compares
\* pre_state with next_state.
register_transition_early(tbl, edg, pre_state, next_state, pred) ==
    LET tbl1 == IF pre_state \in DOMAIN tbl THEN tbl
                ELSE Put(tbl, pre_state, <<>>)
        next_si_vec == tbl1[pre_state]
    IN IF pre_state = next_state
       THEN [ret |-> FALSE, trans_tbl |-> tbl1, edges_tbl |-> edg]
       ELSE IF \E i \in 1..Len(next_si_vec) : next_si_vec[i].first = next_state
       THEN [ret |-> FALSE, trans_tbl |-> tbl1, edges_tbl |-> edg]
       ELSE LET tbl2 == [tbl1 EXCEPT ![pre_state] =
                             Append(@, state_info_t(next_state, pred))]
                e1 == IF pre_state \in DOMAIN edg THEN edg
                      ELSE Put(edg, pre_state, [first |-> 0, second |-> 0])
                e2 == IF next_state \in DOMAIN e1 THEN e1
                      ELSE Put(e1, next_state, [first |-> 0, second |-> 0])
                e3 == [e2 EXCEPT ![pre_state].second = @ + 1]
                e4 == [e3 EXCEPT ![next_state].first = @ + 1]
            IN [ret |-> TRUE, trans_tbl |-> tbl2, edges_tbl |-> e4]

\* register_transition incrementing the in edges of pre_state and the out
\* edges of next_state.
register_transition_swap(tbl, edg, pre_state, next_state, pred) ==
    IF pre_state = next_state
    THEN [ret |-> FALSE, trans_tbl |-> tbl, edges_tbl |-> edg]
    ELSE LET tbl1 == IF pre_state \in DOMAIN tbl THEN tbl
                     ELSE Put(tbl, pre_state, <<>>)
             next_si_vec == tbl1[pre_state]
         IN IF \E i \in 1..Len(next_si_vec) : next_si_vec[i].first = next_state
            THEN [ret |-> FALSE, trans_tbl |-> tbl1, edges_tbl |-> edg]
            ELSE LET tbl2 == [tbl1 EXCEPT ![pre_state] =
                                  Append(@, state_info_t(next_state, pred))]
                     e1 == IF pre_state \in DOMAIN edg THEN edg
                           ELSE Put(edg, pre_state, [first |-> 0, second |-> 0])
                     e2 == IF next_state \in DOMAIN e1 THEN e1
                           ELSE Put(e1, next_state, [first |-> 0, second |-> 0])
                     e3 == [e2 EXCEPT ![pre_state].first = @ + 1]
                     e4 == [e3 EXCEPT ![next_state].second = @ + 1]
                 IN [ret |-> TRUE, trans_tbl |-> tbl2, edges_tbl |-> e4]

\* register_transition without counters for next_state.
register_transition_notarget(tbl, edg, pre_state, next_state, pred) ==
    IF pre_state = next_state
    THEN [ret |-> FALSE, trans_tbl |-> tbl, edges_tbl |-> edg]
    ELSE LET tbl1 == IF pre_state \in DOMAIN tbl THEN tbl
                     ELSE Put(tbl, pre_state, <<>>)
             next_si_vec == tbl1[pre_state]
         IN IF \E i \in 1..Len(next_si_vec) : next_si_vec[i].first = next_state
            THEN [ret |-> FALSE, trans_tbl |-> tbl1, edges_tbl |-> edg]
            ELSE LET tbl2 == [tbl1 EXCEPT ![pre_state] =
                                  Append(@, state_info_t(next_state, pred))]
                     e1 == IF pre_state \in DOMAIN edg THEN edg
                           ELSE Put(edg, pre_state, [first |-> 0, second |-> 0])
                     e3 == [e1 EXCEPT ![pre_state].second = @ + 1]
                 IN [ret |-> TRUE, trans_tbl |-> tbl2, edges_tbl |-> e3]

\* register_transition without the comparison of pre_state and next_state.
register_transition_self(tbl, edg, pre_state, next_state, pred) ==
    LET tbl1 == IF pre_state \in DOMAIN tbl THEN tbl
                ELSE Put(tbl, pre_state, <<>>)
        next_si_vec == tbl1[pre_state]
    IN IF \E i \in 1..Len(next_si_vec) : next_si_vec[i].first = next_state
       THEN [ret |-> FALSE, trans_tbl |-> tbl1, edges_tbl |-> edg]
       ELSE LET tbl2 == [tbl1 EXCEPT ![pre_state] =
                             Append(@, state_info_t(next_state, pred))]
                e1 == IF pre_state \in DOMAIN edg THEN edg
                      ELSE Put(edg, pre_state, [first |-> 0, second |-> 0])
                e2 == IF next_state \in DOMAIN e1 THEN e1
                      ELSE Put(e1, next_state, [first |-> 0, second |-> 0])
                e3 == [e2 EXCEPT ![pre_state].second = @ + 1]
                e4 == [e3 EXCEPT ![next_state].first = @ + 1]
            IN [ret |-> TRUE, trans_tbl |-> tbl2, edges_tbl |-> e4]

\* register_transition counting the out edge only for a pre_state whose
\* counters it has just created.
register_transition_frozen(tbl, edg, pre_state, next_state, pred) ==
    IF pre_state = next_state
    THEN [ret |-> FALSE, trans_tbl |-> tbl, edges_tbl |-> edg]
    ELSE LET tbl1 == IF pre_state \in DOMAIN tbl THEN tbl
                     ELSE Put(tbl, pre_state, <<>>)
             next_si_vec == tbl1[pre_state]
         IN IF \E i \in 1..Len(next_si_vec) : next_si_vec[i].first = next_state
            THEN [ret |-> FALSE, trans_tbl |-> tbl1, edges_tbl |-> edg]
            ELSE LET tbl2 == [tbl1 EXCEPT ![pre_state] =
                                  Append(@, state_info_t(next_state, pred))]
                     e1 == IF pre_state \in DOMAIN edg THEN edg
                           ELSE Put(edg, pre_state, [first |-> 0, second |-> 1])
                     e2 == IF next_state \in DOMAIN e1 THEN e1
                           ELSE Put(e1, next_state, [first |-> 0, second |-> 0])
                     e4 == [e2 EXCEPT ![next_state].first = @ + 1]
                 IN [ret |-> TRUE, trans_tbl |-> tbl2, edges_tbl |-> e4]

register_transition(tbl, edg, pre_state, next_state, pred) ==
    IF pre_state = next_state
    THEN [ret |-> FALSE, trans_tbl |-> tbl, edges_tbl |-> edg]
    ELSE LET tbl1 == IF pre_state \in DOMAIN tbl THEN tbl
                     ELSE Put(tbl, pre_state, <<>>)
             next_si_vec == tbl1[pre_state]
         IN IF \E i \in 1..Len(next_si_vec) : next_si_vec[i].first = next_state
            THEN [ret |-> FALSE, trans_tbl |-> tbl1, edges_tbl |-> edg]
            ELSE LET tbl2 == [tbl1 EXCEPT ![pre_state] =
                                  Append(@, state_info_t(next_state, pred))]
                     e1 == IF pre_state \in DOMAIN edg THEN edg
                           ELSE Put(edg, pre_state, [first |-> 0, second |-> 0])
                     e2 == IF next_state \in DOMAIN e1 THEN e1
                           ELSE Put(e1, next_state, [first |-> 0, second |-> 0])
                     e3 == [e2 EXCEPT ![pre_state].second = @ + 1]
                     e4 == [e3 EXCEPT ![next_state].first = @ + 1]
                 IN [ret |-> TRUE, trans_tbl |-> tbl2, edges_tbl |-> e4]

\* ---------------------------------------------------- is_terminated_state
\* is_terminated_state testing the in edges instead of the out edges.
is_terminated_state_in(edg, s) ==
    s \in DOMAIN edg /\ edg[s].first = 0

\* is_terminated_state without the test of the out edges.
is_terminated_state_found(edg, s) ==
    s \in DOMAIN edg

\* is_terminated_state taking a state without counters for terminated.
is_terminated_state_absent(edg, s) ==
    s \notin DOMAIN edg \/ edg[s].second = 0

is_terminated_state(edg, s) ==
    s \in DOMAIN edg /\ edg[s].second = 0

\* ------------------------------------------------------------ try_trigger
\* The loop with tmp_new_state assigned outside the if.
RECURSIVE ScanEdges_assign(_, _, _, _, _, _)
ScanEdges_assign(vec, i, cnt, tmp_new_state, evals, env) ==
    IF i > Len(vec)
    THEN [cnt |-> cnt, tmp_new_state |-> tmp_new_state, thrown |-> FALSE,
          evals |-> evals]
    ELSE LET next_si == vec[i]
             cnt1 == IF env[next_si.second] THEN cnt + 1 ELSE cnt
             evals1 == Append(evals, next_si.second)
         IN IF cnt1 > 1
            THEN [cnt |-> cnt1, tmp_new_state |-> next_si.first,
                  thrown |-> TRUE, evals |-> evals1]
            ELSE ScanEdges_assign(vec, i + 1, cnt1, next_si.first, evals1, env)

\* The loop throwing at cnt > 2.
RECURSIVE ScanEdges_third(_, _, _, _, _, _)
ScanEdges_third(vec, i, cnt, tmp_new_state, evals, env) ==
    IF i > Len(vec)
    THEN [cnt |-> cnt, tmp_new_state |-> tmp_new_state, thrown |-> FALSE,
          evals |-> evals]
    ELSE LET next_si == vec[i]
             hit == env[next_si.second]
             cnt1 == IF hit THEN cnt + 1 ELSE cnt
             tmp1 == IF hit THEN next_si.first ELSE tmp_new_state
             evals1 == Append(evals, next_si.second)
         IN IF cnt1 > 2
            THEN [cnt |-> cnt1, tmp_new_state |-> tmp1, thrown |-> TRUE,
                  evals |-> evals1]
            ELSE ScanEdges_third(vec, i + 1, cnt1, tmp1, evals1, env)

\* The loop leaving at the first predicate that returns true.
RECURSIVE ScanEdges_break(_, _, _, _, _, _)
ScanEdges_break(vec, i, cnt, tmp_new_state, evals, env) ==
    IF i > Len(vec)
    THEN [cnt |-> cnt, tmp_new_state |-> tmp_new_state, thrown |-> FALSE,
          evals |-> evals]
    ELSE LET next_si == vec[i]
             evals1 == Append(evals, next_si.second)
         IN IF env[next_si.second]
            THEN [cnt |-> cnt + 1, tmp_new_state |-> next_si.first,
                  thrown |-> FALSE, evals |-> evals1]
            ELSE ScanEdges_break(vec, i + 1, cnt, tmp_new_state, evals1, env)

\* The for loop of try_trigger from position i on: cnt and tmp_new_state as
\* the loop leaves them, whether it threw, and the predicates it called.
RECURSIVE ScanEdges(_, _, _, _, _, _)
ScanEdges(vec, i, cnt, tmp_new_state, evals, env) ==
    IF i > Len(vec)
    THEN [cnt |-> cnt, tmp_new_state |-> tmp_new_state, thrown |-> FALSE,
          evals |-> evals]
    ELSE LET next_si == vec[i]
             hit == env[next_si.second]
             cnt1 == IF hit THEN cnt + 1 ELSE cnt
             tmp1 == IF hit THEN next_si.first ELSE tmp_new_state
             evals1 == Append(evals, next_si.second)
         IN IF cnt1 > 1
            THEN [cnt |-> cnt1, tmp_new_state |-> tmp1, thrown |-> TRUE,
                  evals |-> evals1]
            ELSE ScanEdges(vec, i + 1, cnt1, tmp1, evals1, env)

\* try_trigger returning cnt <= 1 instead of cnt.
try_trigger_le(tbl, edg, st, env, old, new) ==
    IF is_terminated_state(edg, st)
    THEN [res |-> "true", old_state |-> st, new_state |-> st, state |-> st,
          evals |-> <<>>]
    ELSE IF st \notin DOMAIN tbl
    THEN [res |-> "invalid_state_error", old_state |-> old, new_state |-> new,
          state |-> st, evals |-> <<>>]
    ELSE LET r == ScanEdges(tbl[st], 1, 0, st, <<>>, env)
         IN IF r.thrown
            THEN [res |-> "ambiguous_state_error", old_state |-> old,
                  new_state |-> new, state |-> st, evals |-> r.evals]
            ELSE IF r.cnt = 1
            THEN [res |-> "true", old_state |-> st,
                  new_state |-> r.tmp_new_state, state |-> r.tmp_new_state,
                  evals |-> r.evals]
            ELSE [res |-> "true", old_state |-> old, new_state |-> new,
                  state |-> st, evals |-> r.evals]

\* One call of try_trigger with out-parameters holding old and new on entry.
\* res: "true" / "false" for the returned bool, or the exception thrown.
try_trigger(tbl, edg, st, env, old, new) ==
    IF is_terminated_state(edg, st)
    THEN [res |-> "true", old_state |-> st, new_state |-> st, state |-> st,
          evals |-> <<>>]
    ELSE IF st \notin DOMAIN tbl
    THEN [res |-> "invalid_state_error", old_state |-> old, new_state |-> new,
          state |-> st, evals |-> <<>>]
    ELSE LET r == ScanEdges(tbl[st], 1, 0, st, <<>>, env)
         IN IF r.thrown
            THEN [res |-> "ambiguous_state_error", old_state |-> old,
                  new_state |-> new, state |-> st, evals |-> r.evals]
            ELSE IF r.cnt = 1
            THEN [res |-> "true", old_state |-> st,
                  new_state |-> r.tmp_new_state, state |-> r.tmp_new_state,
                  evals |-> r.evals]
            ELSE [res |-> IF r.cnt # 0 THEN "true" ELSE "false",
                  old_state |-> old, new_state |-> new, state |-> st,
                  evals |-> r.evals]

\* ------------------------------------------------------------ timed_trigger
\* is_timeout_fn with > for >= on tv_nsec.
is_timeout_fn_gt(abs, cur_time) ==
    \/ cur_time.tv_sec > abs.tv_sec
    \/ (cur_time.tv_sec = abs.tv_sec /\ cur_time.tv_nsec > abs.tv_nsec)

is_timeout_fn(abs, cur_time) ==
    \/ cur_time.tv_sec > abs.tv_sec
    \/ (cur_time.tv_sec = abs.tv_sec /\ cur_time.tv_nsec >= abs.tv_nsec)

\* The pass catching what try_trigger throws and polling on.
timed_trigger_pass_catch(res, clock_ok, abs, cur_time) ==
    IF res = "true" THEN res
    ELSE IF ~clock_ok THEN "false"
    ELSE IF is_timeout_fn(abs, cur_time) THEN "false"
    ELSE "pending"

\* The pass going round again when clock_gettime fails.
timed_trigger_pass_retry(res, clock_ok, abs, cur_time) ==
    IF res # "false" THEN res
    ELSE IF ~clock_ok THEN "pending"
    ELSE IF is_timeout_fn(abs, cur_time) THEN "false"
    ELSE "pending"

\* The pass returning true when the deadline has passed.
timed_trigger_pass_true(res, clock_ok, abs, cur_time) ==
    IF res # "false" THEN res
    ELSE IF ~clock_ok THEN "false"
    ELSE IF is_timeout_fn(abs, cur_time) THEN "true"
    ELSE "pending"

\* The pass with the loop condition while (1).
timed_trigger_pass_spin(res, clock_ok, abs, cur_time) ==
    IF res # "false" THEN res
    ELSE IF ~clock_ok THEN "false"
    ELSE "pending"

\* What one pass of the do-while of timed_trigger() makes of the result res of
\* its try_trigger and of its clock_gettime (clock_ok: it returned 0 and
\* stored cur_time): the value returned or the exception thrown, or "pending"
\* when the loop condition sends it round again.
timed_trigger_pass(res, clock_ok, abs, cur_time) ==
    IF res # "false" THEN res
    ELSE IF ~clock_ok THEN "false"
    ELSE IF is_timeout_fn(abs, cur_time) THEN "false"
    ELSE "pending"

\* Where the time cur lies relative to the deadline abs.
TimeCmp(cur, abs) ==
    IF cur = abs THEN "equal"
    ELSE IF \/ cur.tv_sec < abs.tv_sec
            \/ (cur.tv_sec = abs.tv_sec /\ cur.tv_nsec < abs.tv_nsec)
         THEN "before"
         ELSE "after"

\* ------------------------------------------------------------------ record
\* The record of a call: op and its arguments, the result, the current state
\* at the call, the out-parameters, the targets of the outgoing edges whose
\* predicate was true at the last attempt (hits), the predicates that attempt
\* called (evals), the number of try_trigger attempts made, and whether every
\* attempt so far saw no true predicate on an outgoing edge (quiet), and how
\* the last clock_gettime of the call went (clock): "unread", "failed", or
\* where the time it stored lies relative to the deadline. trapped is the
\* state that try_trigger last reported as a terminal fixed point, when only
\* register_transition calls were made between that report and this call.
Call(op, res, pre, arg1, arg2, arg3) ==
    [op |-> op, res |-> res, pre |-> pre, arg1 |-> arg1, arg2 |-> arg2,
     arg3 |-> arg3, old_state |-> NoState, new_state |-> NoState,
     hits |-> <<>>, evals |-> <<>>, attempts |-> 0, quiet |-> TRUE,
     clock |-> "unread", trapped |-> NoState]

\* The outgoing edges of st in registration order, none for a state that is
\* no key of the table.
OutEdges(tbl, st) == IF st \in DOMAIN tbl THEN tbl[st] ELSE <<>>

\* Targets of the outgoing edges of st whose predicate is true under env.
RECURSIVE TrueTargets(_, _)
TrueTargets(vec, env) ==
    IF vec = <<>> THEN <<>>
    ELSE IF env[Head(vec).second]
         THEN <<Head(vec).first>> \o TrueTargets(Tail(vec), env)
         ELSE TrueTargets(Tail(vec), env)

Bump(n) == IF n < MaxPolls THEN n + 1 ELSE MaxPolls

\* The record l after one more try_trigger attempt with result r.
Attempt(l, r, res) ==
    [l EXCEPT !.res = res, !.old_state = r.old_state,
              !.new_state = r.new_state,
              !.hits = TrueTargets(OutEdges(trans_tbl, state), pred_env),
              !.evals = r.evals, !.attempts = Bump(@),
              !.quiet = @ /\ TrueTargets(OutEdges(trans_tbl, state),
                                         pred_env) = <<>>]

\* The state that the latest try_trigger call reported as a terminal fixed
\* point (true with old_state = new_state), if every call made since was a
\* register_transition, and NoState otherwise.
Trapped ==
    IF last.op = "try_trigger" /\ last.res = "true"
                               /\ last.old_state = last.new_state
    THEN last.pre
    ELSE IF last.op = "register_transition" THEN last.trapped
    ELSE NoState

\* ----------------------------------------------------------------- actions
Init ==
    /\ trans_tbl = EmptyMap
    /\ edges_tbl = EmptyMap
    /\ state \in States          \* _state is not initialised by FSM()
    /\ pred_env \in [Preds -> BOOLEAN]
    /\ pc = "idle"
    /\ abs_time = ZeroTime
    /\ last = Call("FSM", "void", NoState, NoState, NoState, NoState)

\* bool register_transition(pre_state, next_state, pred)
Register(pre_state, next_state, pred) ==
    /\ pc = "idle"
    /\ LET r == register_transition(trans_tbl, edges_tbl, pre_state,
                                    next_state, pred)
       IN /\ r.ret => EdgeCount(trans_tbl) < MaxEdges
          /\ trans_tbl' = r.trans_tbl
          /\ edges_tbl' = r.edges_tbl
          /\ last' = [Call("register_transition",
                           IF r.ret THEN "true" ELSE "false",
                           state, pre_state, next_state, NoState)
                        EXCEPT !.trapped = Trapped]
    /\ UNCHANGED <<state, pred_env, pc, abs_time>>

\* set_state refusing a state without counters.
SetState_checked(init_state) ==
    /\ pc = "idle"
    /\ state' = IF init_state \in DOMAIN edges_tbl THEN init_state ELSE state
    /\ last' = Call("set_state", "void", state, init_state, NoState, NoState)
    /\ UNCHANGED <<trans_tbl, edges_tbl, pred_env, pc, abs_time>>

\* void set_state(init_state)
SetState(init_state) ==
    /\ pc = "idle"
    /\ state' = init_state
    /\ last' = Call("set_state", "void", state, init_state, NoState, NoState)
    /\ UNCHANGED <<trans_tbl, edges_tbl, pred_env, pc, abs_time>>

\* T state() const
GetState ==
    /\ pc = "idle"
    /\ last' = Call("state", state, state, NoState, NoState, NoState)
    /\ UNCHANGED <<trans_tbl, edges_tbl, state, pred_env, pc, abs_time>>

\* bool is_terminated_state(state) const
IsTerminated(s) ==
    /\ pc = "idle"
    /\ last' = Call("is_terminated_state",
                    IF is_terminated_state(edges_tbl, s) THEN "true"
                    ELSE "false",
                    state, s, NoState, NoState)
    /\ UNCHANGED <<trans_tbl, edges_tbl, state, pred_env, pc, abs_time>>

\* bool try_trigger(old_state, new_state)
TryTrigger ==
    /\ pc = "idle"
    /\ LET l == [Call("try_trigger", "pending", state, NoState, NoState,
                      NoState)
                   EXCEPT !.trapped = Trapped]
           r == try_trigger(trans_tbl, edges_tbl, state, pred_env,
                            l.old_state, l.new_state)
       IN /\ state' = r.state
          /\ last' = Attempt(l, r, r.res)
    /\ UNCHANGED <<trans_tbl, edges_tbl, pred_env, pc, abs_time>>

\* The pass of trigger() with the test of try_trigger's result inverted.
TriggerPass_inverted(l) ==
    LET r == try_trigger(trans_tbl, edges_tbl, state, pred_env,
                         l.old_state, l.new_state)
    IN /\ state' = r.state
       /\ IF r.res = "true"
          THEN /\ pc' = "trigger"
               /\ last' = Attempt(l, r, "pending")
          ELSE /\ pc' = "idle"
               /\ last' = Attempt(l, r, IF r.res = "false" THEN "void"
                                        ELSE r.res)
       /\ UNCHANGED <<trans_tbl, edges_tbl, pred_env, abs_time>>

\* One pass of the do-while of trigger(): break when try_trigger returned
\* true, unwind when it threw, yield and go round otherwise.
TriggerPass(l) ==
    LET r == try_trigger(trans_tbl, edges_tbl, state, pred_env,
                         l.old_state, l.new_state)
    IN /\ state' = r.state
       /\ IF r.res = "false"
          THEN /\ pc' = "trigger"
               /\ last' = Attempt(l, r, "pending")
          ELSE /\ pc' = "idle"
               /\ last' = Attempt(l, r, IF r.res = "true" THEN "void"
                                        ELSE r.res)
       /\ UNCHANGED <<trans_tbl, edges_tbl, pred_env, abs_time>>

\* void trigger(old_state, new_state): the call and its first pass
TriggerCall ==
    /\ pc = "idle"
    /\ TriggerPass(Call("trigger", "pending", state, NoState, NoState,
                        NoState))

\* a later pass, after std::this_thread::yield()
TriggerPoll ==
    /\ pc = "trigger"
    /\ TriggerPass(last)

\* bool timed_trigger(old_state, new_state, abs_time): the call and the
\* try_trigger before the loop
TimedTriggerCall(abs) ==
    /\ pc = "idle"
    /\ LET l == Call("timed_trigger", "pending", state, NoState, NoState,
                     NoState)
           r == try_trigger(trans_tbl, edges_tbl, state, pred_env,
                            l.old_state, l.new_state)
       IN /\ state' = r.state
          /\ IF r.res = "false"
             THEN /\ pc' = "timed_trigger"
                  /\ abs_time' = abs
                  /\ last' = Attempt(l, r, "pending")
             ELSE /\ pc' = "idle"
                  /\ abs_time' = ZeroTime
                  /\ last' = Attempt(l, r, r.res)
    /\ UNCHANGED <<trans_tbl, edges_tbl, pred_env>>

\* One pass of the do-while of timed_trigger(), after the yield.
TimedPoll(clock_ok, cur_time) ==
    /\ pc = "timed_trigger"
    /\ LET r == try_trigger(trans_tbl, edges_tbl, state, pred_env,
                            last.old_state, last.new_state)
           ret == timed_trigger_pass(r.res, clock_ok, abs_time, cur_time)
           clock == IF r.res # "false" THEN "unread"
                    ELSE IF ~clock_ok THEN "failed"
                    ELSE TimeCmp(cur_time, abs_time)
       IN /\ state' = r.state
          /\ last' = [Attempt(last, r, ret) EXCEPT !.clock = clock]
          /\ pc' = IF ret = "pending" THEN "timed_trigger" ELSE "idle"
          /\ abs_time' = IF ret = "pending" THEN abs_time ELSE ZeroTime
    /\ UNCHANGED <<trans_tbl, edges_tbl, pred_env>>

\* The world outside the engine changes what a predicate returns.
EnvChange(p) ==
    /\ pred_env' = [pred_env EXCEPT ![p] = ~@]
    /\ UNCHANGED <<trans_tbl, edges_tbl, state, pc, abs_time, last>>

Next ==
    \/ \E s \in States, t \in States, p \in Preds : Register(s, t, p)
    \/ \E s \in States : SetState(s)
    \/ GetState
    \/ \E s \in States : IsTerminated(s)
    \/ TryTrigger
    \/ TriggerCall
    \/ TriggerPoll
    \/ \E abs \in Times : TimedTriggerCall(abs)
    \/ \E cur \in Times : TimedPoll(TRUE, cur)
    \/ TimedPoll(FALSE, ZeroTime)
    \/ \E p \in Preds : EnvChange(p)

Spec == Init /\ [][Next]_vars

\* A pass of timed_trigger() whose clock_gettime fails or stores a time at or
\* after the deadline.
TimedPollLate ==
    \/ \E cur \in Times : /\ TimeCmp(cur, abs_time) # "before"
                          /\ TimedPoll(TRUE, cur)
    \/ TimedPoll(FALSE, ZeroTime)

\* ------------------------------------------------- a source with a fan
\* A machine all of whose edges leave one source, over one more state, so
\* that a source has up to FanOut outgoing edges.
FanStates == States \cup {"D"}
FanSource == "A"

FanInit ==
    /\ trans_tbl = EmptyMap
    /\ edges_tbl = EmptyMap
    /\ state \in FanStates       \* _state is not initialised by FSM()
    /\ pred_env \in [Preds -> BOOLEAN]
    /\ pc = "idle"
    /\ abs_time = ZeroTime
    /\ last = Call("FSM", "void", NoState, NoState, NoState, NoState)

\* bool register_transition(FanSource, next_state, pred)
FanRegister(next_state, pred) ==
    /\ pc = "idle"
    /\ LET r == register_transition(trans_tbl, edges_tbl, FanSource,
                                    next_state, pred)
       IN /\ r.ret => EdgeCount(trans_tbl) < FanOut
          /\ trans_tbl' = r.trans_tbl
          /\ edges_tbl' = r.edges_tbl
          /\ last' = Call("register_transition",
                          IF r.ret THEN "true" ELSE "false",
                          state, FanSource, next_state, NoState)
    /\ UNCHANGED <<state, pred_env, pc, abs_time>>

FanNext ==
    \/ \E t \in FanStates, p \in Preds : FanRegister(t, p)
    \/ \E s \in FanStates : SetState(s)
    \/ TryTrigger
    \/ TriggerCall
    \/ TriggerPoll
    \/ \E abs \in Times : TimedTriggerCall(abs)
    \/ \E cur \in Times : TimedPoll(TRUE, cur)
    \/ TimedPoll(FALSE, ZeroTime)
    \/ \E p \in Preds : EnvChange(p)

FanSpec == FanInit /\ [][FanNext]_vars

\* The thread that yielded inside trigger() or timed_trigger() runs again,
\* and the clock does not stay before the deadline for ever.
FanFairSpec == FanSpec /\ WF_vars(TriggerPoll) /\ WF_vars(TimedPollLate)

\* ------------------------------------------------------------- properties
\* The registered edges as (source, target) pairs.
EdgeSet ==
    UNION {{<<s, trans_tbl[s][i].first>> : i \in 1..Len(trans_tbl[s])} :
           s \in DOMAIN trans_tbl}

\* s is a registered source: some registered edge leaves it.
IsSource(s) == \E e \in EdgeSet : e[1] = s

\* s is terminal: it is the target of a registered edge and the source of none.
IsSink(s) == (\E e \in EdgeSet : e[2] = s) /\ ~IsSource(s)

\* C1: a try_trigger call on a registered source with exactly one outgoing
\* predicate true returns true, stores the previous current state in
\* old_state and that edge's target in new_state, and leaves the current
\* state equal to that target, wherever the false predicates are registered.
C1_ExactlyOneTrue ==
    (last.op = "try_trigger" /\ IsSource(last.pre) /\ Len(last.hits) = 1)
        => /\ last.res = "true"
           /\ last.old_state = last.pre
           /\ last.new_state = last.hits[1]
           /\ state = last.hits[1]

\* A call whose only true predicate is registered first, before a false one.
C1_Witness ==
    /\ last.op = "try_trigger" /\ IsSource(last.pre)
    /\ Len(last.hits) = 1 /\ last.res = "true"
    /\ Len(trans_tbl[last.pre]) = 2
    /\ trans_tbl[last.pre][1].first = last.hits[1]
    /\ Len(last.evals) = 2

\* C2: a try_trigger call that finds two or more outgoing predicates true
\* throws ambiguous_state_error and leaves the current state as it was.
C2_Ambiguous ==
    (last.op = "try_trigger" /\ Len(last.hits) >= 2)
        => /\ last.res = "ambiguous_state_error"
           /\ state = last.pre

\* A call that found exactly two predicates true.
C2_Witness ==
    /\ last.op = "try_trigger" /\ Len(last.hits) = 2
    /\ last.res = "ambiguous_state_error" /\ state = last.pre

TriggerOps == {"try_trigger", "trigger", "timed_trigger"}

\* C3: a try_trigger call on a terminal current state returns true with
\* old_state = new_state = the current state, calls no predicate and leaves
\* the current state; trigger and timed_trigger on a terminal current state
\* return after one such attempt, so no trigger call moves a terminal state.
C3_TerminalFixedPoint ==
    (last.op \in TriggerOps /\ IsSink(last.pre))
        => /\ last.res = IF last.op = "trigger" THEN "void" ELSE "true"
           /\ last.old_state = last.pre
           /\ last.new_state = last.pre
           /\ last.evals = <<>>
           /\ last.attempts = 1
           /\ state = last.pre
           /\ pc = "idle"

\* A try_trigger call made on a terminal current state.
C3_Witness ==
    /\ last.op = "try_trigger" /\ IsSink(last.pre)
    /\ last.res = "true" /\ state = last.pre

\* C4: a try_trigger call on a current state that is no key of the transition
\* table and is not terminal throws invalid_state_error and leaves the
\* current state as it was.
C4_InvalidState ==
    (last.op = "try_trigger" /\ last.pre \notin DOMAIN trans_tbl
                            /\ ~IsSink(last.pre))
        => /\ last.res = "invalid_state_error"
           /\ state = last.pre

\* A try_trigger call on an unknown state of a machine that has edges.
C4_Witness ==
    /\ last.op = "try_trigger" /\ last.pre \notin DOMAIN trans_tbl
    /\ ~IsSink(last.pre) /\ EdgeSet # {}
    /\ last.res = "invalid_state_error"

\* C5: a try_trigger call on a registered source none of whose outgoing
\* predicates is true returns false, throws nothing and leaves the current
\* state, the transition table and the edge counters as they were.
C5_NoneTrue ==
    [][(/\ TryTrigger
        /\ IsSource(state)
        /\ TrueTargets(OutEdges(trans_tbl, state), pred_env) = <<>>)
          => /\ last'.res = "false"
             /\ UNCHANGED <<state, trans_tbl, edges_tbl>>]_vars

\* A try_trigger call on a source with two edges, both predicates false.
C5_Witness ==
    /\ last.op = "try_trigger" /\ IsSource(last.pre)
    /\ Len(trans_tbl[last.pre]) = 2 /\ last.hits = <<>>
    /\ last.res = "false" /\ state = last.pre

\* Number of registered edges whose target is s.
InCount(s) ==
    Cardinality(UNION {{<<src, i>> : i \in {j \in 1..Len(trans_tbl[src]) :
                                               trans_tbl[src][j].first = s}} :
                       src \in DOMAIN trans_tbl})

\* C6: every registered edge has source # target and no two registered edges
\* share (source, target); register_transition returns true exactly when
\* source # target and the pair is not registered yet.
C6_EdgeSet ==
    /\ [](\A s \in DOMAIN trans_tbl :
            \A i \in 1..Len(trans_tbl[s]) :
                /\ trans_tbl[s][i].first # s
                /\ \A j \in 1..Len(trans_tbl[s]) :
                       trans_tbl[s][i].first = trans_tbl[s][j].first => i = j)
    /\ [][last'.op = "register_transition"
            => \A p \in Preds :
                  Register(last'.arg1, last'.arg2, p)
                      => ((last'.res = "true")
                            <=> /\ last'.arg1 # last'.arg2
                                /\ <<last'.arg1, last'.arg2>> \notin EdgeSet)
         ]_vars

\* The second attempt to register a pair: rejected, the pair still there.
C6_Witness ==
    /\ last.op = "register_transition" /\ last.res = "false"
    /\ last.arg1 # last.arg2
    /\ <<last.arg1, last.arg2>> \in EdgeSet

\* C7: a register_transition call that returns false leaves the transition
\* table (keys and edge lists), the edge counters and the current state
\* exactly as they were.
C7_RejectedNoOp ==
    [][(last'.op = "register_transition" /\ last'.res = "false")
          => \A p \in Preds :
                Register(last'.arg1, last'.arg2, p)
                    => UNCHANGED <<trans_tbl, edges_tbl, state>>]_vars

\* A rejected source = target registration for a state that is no key of the
\* table, on a machine that has edges.
C7_Witness ==
    /\ last.op = "register_transition" /\ last.res = "false"
    /\ last.arg1 = last.arg2
    /\ last.arg1 \notin DOMAIN trans_tbl
    /\ EdgeSet # {}

\* C8: for every state s the out edges counted for s are the length of its
\* edge list and the in edges counted for s are the number of registered
\* edges with target s; s has counters iff it is source or target of a
\* registered edge, and s is a key of the table iff its out edges are >= 1.
C8_TopologyMirrors ==
    \A s \in States :
        /\ s \in DOMAIN edges_tbl
              <=> \E e \in EdgeSet : e[1] = s \/ e[2] = s
        /\ s \in DOMAIN edges_tbl
              => /\ edges_tbl[s].second = Len(OutEdges(trans_tbl, s))
                 /\ edges_tbl[s].first = InCount(s)
        /\ s \in DOMAIN trans_tbl
              <=> (s \in DOMAIN edges_tbl /\ edges_tbl[s].second >= 1)

\* Two registered edges through one state: it has an in and an out edge.
C8_Witness ==
    /\ Cardinality(EdgeSet) = 2
    /\ \E s \in DOMAIN edges_tbl :
           edges_tbl[s].first = 1 /\ edges_tbl[s].second = 1

\* C9: is_terminated_state(s) is true iff s is the target of a registered
\* edge and the source of none, false for a state in no registered edge, and
\* the call changes nothing of the machine.
C9_IsTerminal ==
    /\ [](/\ \A s \in States :
                is_terminated_state(edges_tbl, s) <=> IsSink(s)
          /\ last.op = "is_terminated_state"
                => ((last.res = "true") <=> IsSink(last.arg1)))
    /\ [][(last'.op = "is_terminated_state" /\ IsTerminated(last'.arg1))
            => UNCHANGED <<trans_tbl, edges_tbl, state, pred_env>>]_vars

\* is_terminated_state asked about a state in no registered edge, on a
\* machine that has a terminal state.
C9_Witness ==
    /\ last.op = "is_terminated_state" /\ last.res = "false"
    /\ last.arg1 \notin DOMAIN edges_tbl
    /\ \E s \in States : IsSink(s)

Thrown ==
    IF Len(last.hits) >= 2 THEN "ambiguous_state_error"
    ELSE IF ~IsSource(last.pre) /\ ~IsSink(last.pre)
         THEN "invalid_state_error"
         ELSE "none"

\* C12: in trigger() and timed_trigger(), the attempt on which try_trigger
\* throws invalid_state_error or ambiguous_state_error, be it the first or a
\* later one, ends the call with that exception, no further attempt is made
\* and the current state is as it was at the call.
C12_ErrorsPropagate ==
    (last.op \in {"trigger", "timed_trigger"} /\ Thrown # "none")
        => /\ pc = "idle"
           /\ last.res = Thrown
           /\ state = last.pre

\* A timed_trigger call ended by ambiguous_state_error on a later attempt.
C12_Witness ==
    /\ last.op = "timed_trigger" /\ pc = "idle"
    /\ last.res = "ambiguous_state_error"
    /\ last.attempts >= 2

\* C13: when clock_gettime fails, timed_trigger returns false at once, with
\* no further attempt, and the current state is as it was at the call.
C13_ClockFailure ==
    (last.op = "timed_trigger" /\ last.clock = "failed")
        => /\ pc = "idle"
           /\ last.res = "false"
           /\ state = last.pre

\* A timed_trigger call ended by a failed clock read.
C13_Witness ==
    /\ last.op = "timed_trigger" /\ last.clock = "failed"
    /\ pc = "idle" /\ last.res = "false" /\ IsSource(last.pre)

\* C14: set_state(v) installs any v, registered or not, as the current state
\* and leaves the transition table and the edge counters alone; state()
\* returns the current state; a v in no registered edge is reported as
\* invalid_state_error by the next trigger attempt; register_transition,
\* state() and is_terminated_state leave the current state alone.
C14_SetState ==
    /\ [][(last'.op = "set_state" /\ SetState(last'.arg1))
            => /\ state' = last'.arg1
               /\ UNCHANGED <<trans_tbl, edges_tbl>>]_vars
    /\ [](last.op = "state" => last.res = state)
    /\ []((last.op \in TriggerOps /\ last.pre \notin DOMAIN edges_tbl)
            => last.res = "invalid_state_error")
    /\ [][last'.op \in {"register_transition", "state",
                         "is_terminated_state"}
            => state' = state]_vars

\* set_state with a state in no registered edge, on a machine with edges.
C14_Witness ==
    /\ last.op = "set_state" /\ last.arg1 \notin DOMAIN edges_tbl
    /\ EdgeSet # {} /\ state = last.arg1 /\ last.pre # last.arg1

\* C16: a current state that has counters (it is source or target of a
\* registered edge) still has them after every call but set_state, so a
\* trigger call throws invalid_state_error only on a state that is in no
\* registered edge, which no transition installs.
C16_StaysInGraph ==
    /\ [][(state \in DOMAIN edges_tbl /\ last'.op # "set_state")
            => state' \in DOMAIN edges_tbl']_vars
    /\ []((last.op \in TriggerOps /\ last.res = "invalid_state_error")
            => (last.pre \notin DOMAIN edges_tbl /\ state = last.pre))

\* A trigger call that moved the machine into a terminal state.
C16_Witness ==
    /\ last.op \in TriggerOps /\ state # last.pre
    /\ IsSink(state) /\ state \in DOMAIN edges_tbl

\* C17: timed_trigger reads the clock only after two try_trigger attempts
\* that changed nothing; whatever the deadline, an attempt that finds exactly
\* one predicate true returns true and moves the machine and one that throws
\* ends the call; a timeout (the time read is at or after the deadline) is
\* only reported after an attempt that changed nothing.
C17_PollsBeforeClock ==
    /\ [](last.op = "timed_trigger"
            => /\ last.clock # "unread"
                    => (last.attempts >= 2 /\ last.hits = <<>>
                                           /\ state = last.pre)
               /\ last.clock \in {"equal", "after"}
                    => (pc = "idle" /\ last.res = "false")
               /\ last.clock = "before" => pc = "timed_trigger"
               /\ (pc = "idle" /\ last.res = "false")
                    => last.clock \in {"failed", "equal", "after"}
               /\ Len(last.hits) = 1
                    => (pc = "idle" /\ last.res = "true"
                                   /\ state = last.hits[1])
               /\ Thrown # "none" => (pc = "idle" /\ last.res = Thrown))
    /\ [][(/\ pc = "timed_trigger"
           /\ last' # last
           /\ Len(TrueTargets(OutEdges(trans_tbl, state), pred_env)) = 1)
            => /\ pc' = "idle"
               /\ last'.res = "true"
               /\ <<state'>> = TrueTargets(OutEdges(trans_tbl, state),
                                           pred_env)]_vars

\* A timeout reported for a time read equal to the deadline, after two
\* attempts.
C17_Witness ==
    /\ last.op = "timed_trigger" /\ pc = "idle" /\ last.res = "false"
    /\ last.clock = "equal" /\ last.attempts >= 2

\* C20: when try_trigger returns true, old_state is the current state at the
\* call, and old_state = new_state iff that state was terminal; on a state
\* that was not terminal new_state differs from old_state, (old_state,
\* new_state) is a registered edge, and the current state is new_state.
C20_ChangedMeaning ==
    (last.op = "try_trigger" /\ last.res = "true")
        => /\ last.old_state = last.pre
           /\ (last.old_state = last.new_state) <=> IsSink(last.pre)
           /\ state = last.new_state
           /\ ~IsSink(last.pre)
                => /\ last.new_state # last.old_state
                   /\ <<last.old_state, last.new_state>> \in EdgeSet

\* A try_trigger call that returned true on a state that was not terminal.
C20_Witness ==
    /\ last.op = "try_trigger" /\ last.res = "true"
    /\ ~IsSink(last.pre) /\ state # last.pre
    /\ <<last.pre, state>> \in EdgeSet

\* Exactly one outgoing predicate of the current state is true now.
OneTrueNow == Len(TrueTargets(OutEdges(trans_tbl, state), pred_env)) = 1

C18_TimedTerminates ==
    (pc = "timed_trigger") ~> (pc = "idle" /\ last.op = "timed_trigger"
                                          /\ last.res # "pending")

\* A timed_trigger call that polled and ended when a predicate had become
\* true before a later attempt.
C18_Witness ==
    /\ last.op = "timed_trigger" /\ pc = "idle"
    /\ last.res = "true" /\ last.attempts >= 2
    /\ state # last.pre

\* The predicates of the edges vec, in registration order.
PredsOf(vec) == [i \in 1..Len(vec) |-> vec[i].second]

\* The position in vec of the edge with target t.
PosOf(vec, t) == CHOOSE i \in 1..Len(vec) : vec[i].first = t

Class(tbl, edg, s) ==
    IF is_terminated_state(edg, s) THEN "terminal"
    ELSE IF s \in DOMAIN tbl THEN "source"
    ELSE "unknown"

\* C19: as register_transition calls are accepted, before or after set_state
\* and between trigger calls, a state goes from unknown to terminal or to
\* source and from terminal to source, never from source to terminal nor
\* back to unknown; once an edge leaving the current state is registered
\* after try_trigger reported that state as a terminal fixed point, the state
\* is a source, and a try_trigger call that finds exactly one of its
\* predicates true moves the machine to that edge's target.
C19_NotFrozen ==
    /\ [][\A s \in States :
            LET before == Class(trans_tbl, edges_tbl, s)
                after == Class(trans_tbl', edges_tbl', s)
            IN /\ before = "source" => after = "source"
               /\ before = "terminal" => after \in {"terminal", "source"}
               /\ before # after => /\ last'.op = "register_transition"
                                    /\ last'.res = "true"
                                    /\ s \in {last'.arg1, last'.arg2}]_vars
    /\ []((last.op = "register_transition" /\ last.res = "true"
                                           /\ last.arg1 = last.trapped)
            => Class(trans_tbl, edges_tbl, last.trapped) = "source")
    /\ []((last.op = "try_trigger" /\ last.trapped = last.pre
                                   /\ Len(last.hits) = 1)
            => /\ last.res = "true"
               /\ last.old_state = last.pre
               /\ last.new_state = last.hits[1]
               /\ state = last.hits[1]
               /\ state # last.pre)

\* A try_trigger call that moved the machine out of the state the previous
\* try_trigger call had reported as a terminal fixed point.
C19_Witness ==
    /\ last.op = "try_trigger" /\ last.trapped = last.pre
    /\ last.res = "true" /\ state # last.pre

====
